---- MODULE Spec2Model ----
(***************************************************************************)
(* Model of src/src/evaluation/grn_models/gene_expression_prediction.py:   *)
(* the data selector (_select_data), the target fitter (_fit_model) and    *)
(* the two orchestrator entry points (_compute_gene_expression_prediction, *)
(* compute_gene_expression_prediction), with the joblib worker pool        *)
(* modelled as interleaved per-target tasks.                               *)
(*                                                                         *)
(* Abstractions.  A matrix is described by its shape and by the features   *)
(* its columns were read from, not by its numbers.  The estimator is known *)
(* only through fit/score/predict: its state is the sequence of targets    *)
(* whose data it currently reflects, and a statistic computed from it is   *)
(* represented by the estimator state it was computed from.  Column labels *)
(* are strings; the labels "True" and "False" stand for the Python         *)
(* booleans used as labels.  celltype is None (the default) throughout.    *)
(***************************************************************************)
EXTENDS Integers, Sequences, FiniteSets, TLC

(* ------------------------------ bounds --------------------------------- *)
MaxEdges == 2          \* rows of the network table
MaxMinRegs == 2        \* min_regulators ranges over 0..MaxMinRegs
NumObs == 2            \* samples (cells) of the dataset

Sources == {"A", "B"}
Targets == {"G", "H"}
NoLayer == "None"
LayerNames == {"counts"}

\* Feature indexes (adata.var.index) the dataset may carry: every feature
\* present; source B absent; target H absent; target G twice; source A twice.
VarIndexes ==
    { <<"A", "B", "G", "H">>, <<"A", "G", "H">>, <<"A", "B", "G">>,
      <<"A", "B", "G", "G", "H">>, <<"A", "A", "G", "H">> }

\* Column sets of the network table.
Schemas == { {"tf", "gene"}, {"tf", "gene", "target"}, {"True", "gene", "target"} }

Backends == {"sequential", "loky", "threading"}

VARIABLES
    mdata,      \* the caller's dataset store and network table
    call,       \* the arguments of the orchestrator call
    pc,         \* "start", "running", "done", "error"
    task,       \* the dispatched _fit_model calls, in target order
    model,      \* the caller's estimator object
    backend,    \* the joblib backend that runs the tasks
    ret,        \* what the orchestrator call returned or raised
    stdout      \* what was printed: skip notices, and the progress bar

vars == <<mdata, call, pc, task, model, backend, ret, stdout>>

(* ------------------------------ helpers -------------------------------- *)
Range(s) == { s[i] : i \in DOMAIN s }

RECURSIVE Unique(_)
Unique(s) ==
    IF s = <<>> THEN <<>>
    ELSE LET r == Unique(SubSeq(s, 1, Len(s) - 1))
         IN IF s[Len(s)] \in Range(r) THEN r ELSE Append(r, s[Len(s)])

RECURSIVE Where(_, _, _)
\* np.where(mask)[0] over the feature index: the positions i (ascending,
\* from position i on) whose feature is in `wanted`.
Where(index, wanted, i) ==
    IF i > Len(index) THEN <<>>
    ELSE IF index[i] \in wanted
         THEN <<i>> \o Where(index, wanted, i + 1)
         ELSE Where(index, wanted, i + 1)

Label(v) == IF v THEN "True" ELSE "False"

HasColumn(grn, key) == key \in grn.cols
Column(grn, key) == [i \in 1..Len(grn.rows) |-> grn.rows[i][key]]

EmptyFrame == [columns |-> {}, rows |-> <<>>]
NoX == [n_rows |-> 0, columns |-> <<>>, layer |-> NoLayer]
NoY == [len |-> 0]
Unfitted == <<>>

(* ---------------------------- _select_data ----------------------------- *)
SelectData(grn, adata, target, source_key, target_key, layer) ==
    IF ~HasColumn(grn, target_key)
    THEN [exc |-> "KeyError", X |-> NoX, y |-> NoY, regulators |-> <<>>]
    ELSE
    LET keep(row) == row[target_key] = target
        sub_grn == [cols |-> grn.cols, rows |-> SelectSeq(grn.rows, keep)]
    IN IF ~HasColumn(sub_grn, source_key)
       THEN [exc |-> "KeyError", X |-> NoX, y |-> NoY, regulators |-> <<>>]
       ELSE
       LET regulators == Column(sub_grn, source_key)
           regulator_idx == Where(adata.var, Range(regulators), 1)
           target_idx == Where(adata.var, {target}, 1)
       IN IF layer # NoLayer /\ layer \notin adata.layers
          THEN [exc |-> "LayerError", X |-> NoX, y |-> NoY, regulators |-> <<>>]
          ELSE [exc |-> "none",
                X |-> [n_rows |-> adata.n_obs,
                       columns |-> [k \in 1..Len(regulator_idx) |->
                                        adata.var[regulator_idx[k]]],
                       layer |-> layer],
                y |-> [len |-> adata.n_obs * Len(target_idx)],
                regulators |-> regulators]

(* ------------------------------ _fit_model ----------------------------- *)
\* How each entry point binds _fit_model's parameters.  The public entry
\* passes (grn, adata, target, model, min_regulators, verbose) positionally,
\* so its sixth argument lands in source_key and the rest keep defaults.
FitArgs(c) ==
    IF c.entry = "internal"
    THEN [min_regulators |-> c.min_regulators, source_key |-> c.source_key,
          target_key |-> c.target_key, layer |-> c.layer, verbose |-> c.verbose]
    ELSE [min_regulators |-> c.min_regulators, source_key |-> Label(c.verbose),
          target_key |-> "gene", layer |-> NoLayer, verbose |-> TRUE]

SkipsOffByOne(X, min_regulators) == Len(X.columns) + 1 < min_regulators

\* n_cells, n_regulators = X.shape; if n_regulators < min_regulators
Skips(X, min_regulators) == Len(X.columns) < min_regulators

\* model.fit(X, y) validates its input: at least one sample, at least one
\* feature, and as many targets as samples.
FitRaises(X, y) == X.n_rows = 0 \/ Len(X.columns) = 0 \/ y.len # X.n_rows

\* model.fit mutates the estimator in place: a warm-starting estimator
\* continues from what it held, any other one forgets it.
FitState(est, target, warm) == IF warm THEN Append(est, target) ELSE <<target>>

FitResult(target, r2, mse, X, regulators) ==
    [target |-> target, r2 |-> r2, mse |-> mse, n_cells |-> X.n_rows,
     regulators |-> regulators]

(* ----------------------------- orchestrator ---------------------------- *)
TargetColumn(c) == IF c.entry = "internal" THEN c.target_key ELSE "target"

DataFrame(results) ==
    IF results = <<>> THEN EmptyFrame
    ELSE [columns |-> DOMAIN results[1], rows |-> results]

\* results["n_regulators"] = results["regulators"].apply(len)
WithNRegulators(df) ==
    [columns |-> df.columns \cup {"n_regulators"},
     rows |-> [i \in 1..Len(df.rows) |->
                  ("n_regulators" :> Len(df.rows[i].regulators)) @@ df.rows[i]]]

Pending == [kind |-> "pending", exc |-> "none", table |-> EmptyFrame]
Raised(exc) == [kind |-> "error", exc |-> exc, table |-> EmptyFrame]
Returned(df) == [kind |-> "table", exc |-> "none", table |-> df]
ReturnedNone == [kind |-> "None", exc |-> "none", table |-> EmptyFrame]
NoUns == [present |-> FALSE, table |-> EmptyFrame]

WriteBackAlways(store, c, df) ==
    [store EXCEPT !.uns = [present |-> TRUE, table |-> df]]

\* if inplace: mdata.uns["gene_expression_prediction"] = results
WriteBack(store, c, df) ==
    IF c.entry = "public" /\ c.inplace
    THEN [store EXCEPT !.uns = [present |-> TRUE, table |-> df]]
    ELSE store

\* The tail of an entry point, from the list of task results on:
\* the call's outcome and the store it leaves.
Finish(store, c, results) ==
    LET df == DataFrame(results)
    IN IF c.entry = "internal"
       THEN IF "regulators" \notin df.columns
            THEN [ret |-> Raised("KeyError"), store |-> store]
            ELSE [ret |-> Returned(WithNRegulators(df)), store |-> store]
       ELSE [ret |-> IF c.inplace THEN ReturnedNone ELSE Returned(df),
             store |-> WriteBack(store, c, df)]

(* ------------------------------- Init ---------------------------------- *)
Edges == [src : Sources, tgt : Targets]
EdgeLists == UNION { [1..n -> Edges] : n \in 0..MaxEdges }

RowOf(cols, e) == [c \in cols |-> IF c \in {"tf", "True"} THEN e.src ELSE e.tgt]
Table(cols, edges) ==
    [cols |-> cols, rows |-> [i \in 1..Len(edges) |-> RowOf(cols, edges[i])]]

InternalCalls ==
    [entry : {"internal"}, source_key : {"tf"}, target_key : {"gene"},
     layer : {NoLayer} \cup LayerNames, min_regulators : 0..MaxMinRegs,
     n_jobs : {1, 2}, verbose : BOOLEAN, inplace : {FALSE}]
PublicCalls ==
    [entry : {"public"}, source_key : {"tf"}, target_key : {"gene"},
     layer : {NoLayer}, min_regulators : 0..MaxMinRegs,
     n_jobs : {1, 2}, verbose : BOOLEAN, inplace : BOOLEAN]

Init ==
    /\ call \in InternalCalls \cup PublicCalls
    /\ \E cols \in Schemas, edges \in EdgeLists, var \in VarIndexes,
          layers \in SUBSET LayerNames :
          /\ call.entry = "internal" => cols = {"tf", "gene"}
          /\ call.layer = NoLayer => layers = {}
          /\ mdata = [grn |-> Table(cols, edges), var |-> var, n_obs |-> NumObs,
                      layers |-> layers, uns |-> NoUns]
    /\ backend \in Backends
    /\ (backend = "sequential") = (call.n_jobs = 1)
    /\ model \in [warm_start : BOOLEAN, fitted : {Unfitted}]
    /\ pc = "start"
    /\ task = <<>>
    /\ ret = Pending
    /\ stdout = [bar |-> FALSE, notices |-> {}]

(* ------------------------------ actions -------------------------------- *)
NewTask(target, c) ==
    [target |-> target, pc |-> "pending", source_key |-> FitArgs(c).source_key,
     X |-> NoX, y |-> NoY, regulators |-> <<>>, est |-> Unfitted,
     r2 |-> Unfitted, mse |-> Unfitted, exc |-> "none"]

\* The entry point up to the dispatch: the targets are enumerated and one
\* _fit_model call per target is handed to the pool, in target order.
Call ==
    /\ pc = "start"
    /\ IF ~HasColumn(mdata.grn, TargetColumn(call))
       THEN /\ pc' = "error"
            /\ ret' = Raised("KeyError")
            /\ UNCHANGED <<task, stdout>>
       ELSE LET targets == Unique(Column(mdata.grn, TargetColumn(call)))
            IN /\ task' = [i \in 1..Len(targets) |-> NewTask(targets[i], call)]
               /\ stdout' = [stdout EXCEPT !.bar = call.verbose]
               /\ pc' = "running"
               /\ UNCHANGED ret
    /\ UNCHANGED <<mdata, call, model, backend>>

Active(i) == task[i].pc \in {"selected", "fitted", "scored"}
Failed(i) == task[i].pc = "raised"
Finished(i) == task[i].pc \in {"done", "skipped"}

\* The pool starts tasks in order, at most n_jobs at a time; with one job a
\* raised exception ends the loop before the next task starts.
CanStart(i) ==
    /\ task[i].pc = "pending"
    /\ \A j \in 1..(i - 1) : task[j].pc # "pending"
    /\ Cardinality({ j \in DOMAIN task : Active(j) }) < call.n_jobs
    /\ backend = "sequential" => \A j \in DOMAIN task : ~Failed(j)

\* _fit_model down to the skip test (lines 64-69).
TaskSelect(i) ==
    /\ pc = "running"
    /\ CanStart(i)
    /\ LET a == FitArgs(call)
           s == SelectData(mdata.grn, mdata, task[i].target,
                           task[i].source_key, a.target_key, a.layer)
       IN IF s.exc # "none"
          THEN /\ task' = [task EXCEPT ![i].pc = "raised", ![i].exc = s.exc]
               /\ UNCHANGED stdout
          ELSE /\ task' = [task EXCEPT ![i].X = s.X, ![i].y = s.y,
                                       ![i].regulators = s.regulators,
                                       ![i].pc = IF Skips(s.X, a.min_regulators)
                                                 THEN "skipped" ELSE "selected"]
               /\ stdout' = IF Skips(s.X, a.min_regulators) /\ a.verbose
                            THEN [stdout EXCEPT !.notices = @ \cup {task[i].target}]
                            ELSE stdout
    /\ UNCHANGED <<mdata, call, pc, model, backend, ret>>

\* The estimator a task works on: process workers receive a pickled copy of
\* the argument, the sequential loop and thread workers the caller's object.
EstOf(i) == IF backend = "loky" THEN task[i].est ELSE model.fitted

\* model.fit(X, y) (line 70).
TaskFit(i) ==
    /\ pc = "running"
    /\ task[i].pc = "selected"
    /\ IF FitRaises(task[i].X, task[i].y)
       THEN /\ task' = [task EXCEPT ![i].pc = "raised", ![i].exc = "FitError"]
            /\ UNCHANGED model
       ELSE LET est == FitState(EstOf(i), task[i].target, model.warm_start)
            IN IF backend = "loky"
               THEN /\ task' = [task EXCEPT ![i].pc = "fitted", ![i].est = est]
                    /\ UNCHANGED model
               ELSE /\ task' = [task EXCEPT ![i].pc = "fitted"]
                    /\ model' = [model EXCEPT !.fitted = est]
    /\ UNCHANGED <<mdata, call, pc, backend, ret, stdout>>

\* r2 = model.score(X, y) (line 71).
TaskScore(i) ==
    /\ pc = "running"
    /\ task[i].pc = "fitted"
    /\ task' = [task EXCEPT ![i].pc = "scored", ![i].r2 = EstOf(i)]
    /\ UNCHANGED <<mdata, call, pc, model, backend, ret, stdout>>

\* mse = np.mean((model.predict(X) - y) ** 2) and the return (lines 72-73).
TaskPredict(i) ==
    /\ pc = "running"
    /\ task[i].pc = "scored"
    /\ task' = [task EXCEPT ![i].pc = "done", ![i].mse = EstOf(i)]
    /\ UNCHANGED <<mdata, call, pc, model, backend, ret, stdout>>

\* Parallel(...)(...) re-raises the exception of a task in the caller.
Abort ==
    /\ pc = "running"
    /\ \E i \in DOMAIN task :
          /\ Failed(i)
          /\ \A j \in 1..(i - 1) : ~Failed(j)
          /\ ret' = Raised(task[i].exc)
    /\ pc' = "error"
    /\ UNCHANGED <<mdata, call, task, model, backend, stdout>>

\* results = [r for r in results if r is not None]
Results(tasks) ==
    LET done == SelectSeq(tasks, LAMBDA t : t.pc = "done")
    IN [k \in 1..Len(done) |->
           FitResult(done[k].target, done[k].r2, done[k].mse, done[k].X,
                     done[k].regulators)]

\* The entry point after the pool has returned every task's result.
Collect ==
    /\ pc = "running"
    /\ \A i \in DOMAIN task : Finished(i)
    /\ LET f == Finish(mdata, call, Results(task))
       IN /\ ret' = f.ret
          /\ mdata' = f.store
          /\ pc' = IF f.ret.kind = "error" THEN "error" ELSE "done"
    /\ UNCHANGED <<call, task, model, backend, stdout>>

Next ==
    \/ Call
    \/ \E i \in DOMAIN task : TaskSelect(i)
    \/ \E i \in DOMAIN task : TaskFit(i)
    \/ \E i \in DOMAIN task : TaskScore(i)
    \/ \E i \in DOMAIN task : TaskPredict(i)
    \/ Abort
    \/ Collect

Spec == Init /\ [][Next]_vars

(* --------------------- the run with n_jobs = 1 ------------------------- *)
RECURSIVE SequentialTasks(_, _, _, _, _, _)
\* Parallel(n_jobs=1) runs the tasks one after the other on the caller's
\* estimator `est`; the first exception ends the loop.
SequentialTasks(store, c, warm, targets, est, results) ==
    IF targets = <<>> THEN [exc |-> "none", results |-> results]
    ELSE LET a == FitArgs(c)
             target == Head(targets)
             s == SelectData(store.grn, store, target, a.source_key,
                             a.target_key, a.layer)
         IN IF s.exc # "none" THEN [exc |-> s.exc, results |-> results]
            ELSE IF Skips(s.X, a.min_regulators)
            THEN SequentialTasks(store, c, warm, Tail(targets), est, results)
            ELSE IF FitRaises(s.X, s.y)
            THEN [exc |-> "FitError", results |-> results]
            ELSE LET fitted == FitState(est, target, warm)
                 IN SequentialTasks(store, c, warm, Tail(targets), fitted,
                        Append(results,
                               FitResult(target, fitted, fitted, s.X, s.regulators)))

\* What a call with n_jobs = 1 returns and leaves in the store's uns.
SequentialRun(store, c, warm) ==
    IF ~HasColumn(store.grn, TargetColumn(c))
    THEN [ret |-> Raised("KeyError"), uns |-> store.uns]
    ELSE LET targets == Unique(Column(store.grn, TargetColumn(c)))
             r == SequentialTasks(store, c, warm, targets, Unfitted, <<>>)
         IN IF r.exc # "none"
            THEN [ret |-> Raised(r.exc), uns |-> store.uns]
            ELSE LET f == Finish(store, c, r.results)
                 IN [ret |-> f.ret, uns |-> f.store.uns]

(* ------------------------------ properties ----------------------------- *)
Ended == pc \in {"done", "error"}
Observed == [ret |-> ret, uns |-> mdata.uns]
Original == [mdata EXCEPT !.uns = NoUns]
OutputTable == IF mdata.uns.present THEN mdata.uns.table ELSE ret.table
OutputTargets == { OutputTable.rows[k].target : k \in DOMAIN OutputTable.rows }
InPlace == call.entry = "public" /\ call.inplace

\* C1 (skip correctness): in every state, a dispatched target whose X has
\* fewer regulator columns than min_regulators has no row in the result
\* table the call returned or stored.
C1_SkipCorrectness ==
    \A i \in DOMAIN task :
        LET a == FitArgs(call)
            s == SelectData(mdata.grn, mdata, task[i].target, a.source_key,
                            a.target_key, a.layer)
        IN (s.exc = "none" /\ Len(s.X.columns) < call.min_regulators)
               => task[i].target \notin OutputTargets

C1_Witness ==
    /\ pc = "done"
    /\ \E i \in DOMAIN task : task[i].pc = "skipped"
    /\ OutputTargets # {}

\* C2 (regulator resolution): every output row that carries n_regulators
\* counts exactly the distinct sources of its target that the feature index
\* resolves, which is also the number of columns of the X of that target.
C2_RegulatorResolution ==
    \A k \in DOMAIN OutputTable.rows :
        LET row == OutputTable.rows[k]
            declared == { mdata.grn.rows[j][call.source_key] :
                            j \in { e \in DOMAIN mdata.grn.rows :
                                      mdata.grn.rows[e][call.target_key] = row.target } }
            resolvable == declared \cap Range(mdata.var)
        IN "n_regulators" \in DOMAIN row =>
              \A i \in DOMAIN task : task[i].target = row.target =>
                  /\ Len(task[i].X.columns) = Cardinality(resolvable)
                  /\ row.n_regulators = Len(task[i].X.columns)

\* C3 (determinism across worker counts): a call that has ended returned
\* and stored exactly what the same call with n_jobs = 1 returns and stores.
C3_Determinism ==
    Ended => Observed = SequentialRun(Original, call, model.warm_start)

\* C4 (empty network): a call on a network table of zero rows (that has the
\* column the targets are enumerated from) never ends in an error, and the
\* table it returns or stores is empty.
C4_EmptyNetwork ==
    (mdata.grn.rows = <<>> /\ HasColumn(mdata.grn, TargetColumn(call)))
        => /\ pc # "error"
           /\ OutputTable.rows = <<>>

\* C5 (shape invariant): every row of a returned or stored result table has
\* n_cells equal to the dataset's sample count and an n_regulators value
\* equal to the length of the row's regulators.
C5_ShapeInvariant ==
    \A k \in DOMAIN OutputTable.rows :
        LET row == OutputTable.rows[k]
        IN /\ row.n_cells = mdata.n_obs
           /\ "n_regulators" \in DOMAIN row
           /\ row["n_regulators"] = Len(row.regulators)

\* C6 (missing layer aborts the batch): a call that names a layer the dataset
\* does not have ends in the layer-not-found error, with no table returned
\* or stored.
C6_MissingLayerAborts ==
    (Ended /\ call.layer # NoLayer /\ call.layer \notin mdata.layers)
        => /\ pc = "error"
           /\ ret.exc = "LayerError"
           /\ ret.kind = "error"
           /\ ~mdata.uns.present

\* C7 (read-only inputs, single final write): a step changes the caller's
\* store only by the orchestrator writing, in place, the complete result
\* table into uns once every task has finished; a call that is not in place
\* ends with the store as it was and the table returned.
C7_ReadOnlySingleWrite ==
    [][ /\ mdata' # mdata =>
              /\ InPlace
              /\ pc = "running" /\ pc' = "done"
              /\ \A i \in DOMAIN task : Finished(i)
              /\ ~mdata.uns.present
              /\ mdata' = [mdata EXCEPT !.uns =
                              [present |-> TRUE, table |-> DataFrame(Results(task))]]
        /\ (pc # "done" /\ pc' = "done") =>
              IF InPlace THEN mdata'.uns.present
              ELSE mdata' = mdata /\ ret'.kind = "table"
      ]_vars

C7_Witness ==
    /\ pc = "done"
    /\ InPlace
    /\ mdata.uns.present
    /\ Len(mdata.uns.table.rows) >= 1

\* C8 (per-target failure isolation): when the estimator's fit has failed
\* for a target, the call still ends normally and its table has the rows of
\* the targets that were fitted.
C8_FailureIsolation ==
    (Ended /\ \E i \in DOMAIN task : Failed(i) /\ task[i].exc = "FitError")
        => /\ pc = "done"
           /\ \A j \in DOMAIN task :
                 task[j].pc = "done" => task[j].target \in OutputTargets

\* C9 (sample-count invariant): the X and y the data selector returned for a
\* target have the same number of samples, the dataset's sample count.
C9_SampleCount ==
    \A i \in DOMAIN task :
        task[i].pc \in {"selected", "fitted", "scored", "done", "skipped"}
            => /\ task[i].X.n_rows = task[i].y.len
               /\ task[i].y.len = mdata.n_obs

\* C10 (verbose is observational): verbose never becomes the source_key a
\* task selects data with, and a sequential call that has ended returned and
\* stored what the same call with the other value of verbose does.
C10_VerboseObservational ==
    /\ \A i \in DOMAIN task : task[i].source_key = call.source_key
    /\ (Ended /\ backend = "sequential") =>
           Observed = SequentialRun(Original, [call EXCEPT !.verbose = ~@],
                                    model.warm_start)

====
